---- MODULE Spec2Model ----
(***************************************************************************)
(* Meeting-room occupancy model of KananGadhia2.py: Room with its AC and   *)
(* Lights observers, the OfficeManager singleton registry, and the Book /  *)
(* Cancel commands, driven by an arbitrary single-threaded caller.         *)
(***************************************************************************)
EXTENDS Integers, Sequences, FiniteSets, TLC

\* ------------------------------------------------------------------ bounds
\* Room objects constructed over the whole run (guard of configure_rooms).
MaxRooms == 2

\* ------------------------------------------------------------------ inputs
\* Arguments the caller passes; each set straddles the branch of its callee.
Counts == -1 .. 3
Caps == -1 .. 2
ConfigCounts == -1 .. 2
RoomNumbers == -1 .. (MaxRooms + 1)
StartTimes == {"09:00", "14:30"}
Durations == {60}

\* ------------------------------------------------------------------ values
None == [kind |-> "None", id |-> 0]
RoomRef(r) == [kind |-> "Room", id |-> r]
ManagerRef(m) == [kind |-> "OfficeManager", id |-> m]
BoolVal(b) == [kind |-> "bool", id |-> IF b THEN 1 ELSE 0]

NoCommand == [room |-> 0, start_time |-> "", duration |-> 0]

\* One printed line: the format string and the values substituted into it.
Line(text, room, n, at) == [text |-> text, room |-> room, n |-> n, at |-> at]

Call(op, target, arg) == [op |-> op, target |-> target, arg |-> arg]

NoCall == Call("none", 0, 0)

\* ------------------------------------------------------------------- state
VARIABLES
    _instance,   \* OfficeManager._instance: 0 is None, else a manager object
    mgrs,        \* OfficeManager objects: mgrs[m] is the rooms list of object m
    heap,        \* Room objects, heap[r] the fields of object r
    sensors,     \* observer objects, sensors[s] the class of object s
    book_cmd,    \* the caller's BookRoomCommand object (NoCommand before one is built)
    cancel_cmd,  \* the caller's CancelBookingCommand object
    lastOp,      \* the call that has just returned to the caller (NoCall between calls)
    ret,         \* what that call returned
    out,         \* the lines that call printed, in order
    updates,     \* the observer.update calls that call made, in order
    recorded,    \* recorded[r]: the last add_occupants / release_occupants call on
                 \* Room r was add_occupants(count) with count >= 2
    book_runs,   \* how often the object in book_cmd has executed with success
                 \* (2: twice or more); counted under SpecBooking only
    station,     \* KananGadhia.py: the WeatherStation object (observers, temperature)
    station_last,\* the station call that has just returned: the call, the update
                 \* calls it made, the lines they printed, the exception it raised
    strategy,    \* KananGadhia.py: SortContext.strategy (None before set_strategy)
    array,       \* the caller's list object, sorted in place
    input,       \* the contents of array when the caller built it
    runs,        \* the strategies executed on array so far, in order
    twin_heap,   \* the Room objects of a second run of the room program that makes
                 \* the same calls except for its set_max_capacity calls
    twin_updates \* the observer.update calls the second run's last call made

\* The state of the room program (KananGadhia2.py).
room_vars == <<_instance, mgrs, heap, sensors, book_cmd, cancel_cmd,
               lastOp, ret, out, updates, recorded, book_runs>>

\* The state of the two demos of KananGadhia.py.
station_vars == <<station, station_last>>

sort_vars == <<strategy, array, input, runs>>

\* The second run of the room program (used under SpecTwin only).
twin_vars == <<twin_heap, twin_updates>>

vars == <<room_vars, station_vars, sort_vars, twin_vars>>

\* --------------------------------------------------------------- observers
\* AC.update / Lights.update: the line the observer prints.
update(cls, is_occ) ==
    IF cls = "AC"
    THEN (IF is_occ THEN Line("AC turned on.", 0, 0, "")
                    ELSE Line("AC turned off.", 0, 0, ""))
    ELSE (IF is_occ THEN Line("Lights turned on.", 0, 0, "")
                    ELSE Line("Lights turned off.", 0, 0, ""))

\* -------------------------------------------------------------------- Room
\* Room.__init__: ac and lights are the freshly constructed observer objects.
Room(room_number, ac, lights) ==
    [room_number |-> room_number, occupied |-> FALSE, max_capacity |-> 0,
     observers |-> <<ac, lights>>]

\* The effect of a method on the Room heap: the new heap, the lines printed,
\* the update calls made, the occupancy-changing calls entered, and the value
\* returned (the mutators and execute have no return statement: None).
Effect(h, o, u, c) ==
    [heap |-> h, out |-> o, updates |-> u, calls |-> c, ret |-> None]

is_occupied(h, r) == h[r].occupied

get_room_number(h, r) == h[r].room_number

\* notify_observers with the loop stopping one entry short of the list.
notify_observers_short(h, r) ==
    LET obs == h[r].observers
    IN  [heap |-> h,
         out |-> [i \in 1 .. Len(obs) - 1 |-> update(sensors[obs[i]], h[r].occupied)],
         updates |-> [i \in 1 .. Len(obs) - 1 |->
                         [sensor |-> obs[i], is_occupied |-> h[r].occupied]],
         calls |-> <<>>, ret |-> None]

\* Room.notify_observers: one update per entry of self.observers, in list
\* order, each reading self.occupied at the time of the call.
notify_observers(h, r) ==
    LET obs == h[r].observers
    IN  Effect(h,
               [i \in 1 .. Len(obs) |-> update(sensors[obs[i]], h[r].occupied)],
               [i \in 1 .. Len(obs) |-> [sensor |-> obs[i], is_occupied |-> h[r].occupied]],
               <<>>)

\* set_max_capacity with the validation written max_capacity >= 0.
set_max_capacity_ge(h, r, max_capacity) ==
    IF max_capacity >= 0
    THEN [heap |-> [h EXCEPT ![r].max_capacity = max_capacity],
          out |-> <<Line("Room {} maximum capacity set to {}.", h[r].room_number, max_capacity, "")>>,
          updates |-> <<>>, calls |-> <<>>, ret |-> None]
    ELSE [heap |-> h,
          out |-> <<Line("Invalid capacity. Please enter a valid positive number.", 0, 0, "")>>,
          updates |-> <<>>, calls |-> <<>>, ret |-> None]

\* set_max_capacity with a silent else branch.
set_max_capacity_silent(h, r, max_capacity) ==
    IF max_capacity > 0
    THEN [heap |-> [h EXCEPT ![r].max_capacity = max_capacity],
          out |-> <<Line("Room {} maximum capacity set to {}.", h[r].room_number, max_capacity, "")>>,
          updates |-> <<>>, calls |-> <<>>, ret |-> None]
    ELSE [heap |-> h, out |-> <<>>, updates |-> <<>>, calls |-> <<>>, ret |-> None]

set_max_capacity(h, r, max_capacity) ==
    IF max_capacity > 0
    THEN Effect([h EXCEPT ![r].max_capacity = max_capacity],
                <<Line("Room {} maximum capacity set to {}.", h[r].room_number, max_capacity, "")>>,
                <<>>, <<>>)
    ELSE Effect(h, <<Line("Invalid capacity. Please enter a valid positive number.", 0, 0, "")>>,
                <<>>, <<>>)

\* add_occupants refusing a count above a capacity that has been set.
add_occupants_capped(h, r, count) ==
    LET ok == count >= 2 /\ (h[r].max_capacity = 0 \/ count <= h[r].max_capacity)
        h1 == [h EXCEPT ![r].occupied = ok]
        msg == IF ok
               THEN Line("Room {} is now occupied by {} persons.", h[r].room_number, count, "")
               ELSE Line("Room {} occupancy insufficient to mark as occupied.", h[r].room_number, 0, "")
        n == notify_observers(h1, r)
    IN  [heap |-> n.heap, out |-> <<msg>> \o n.out, updates |-> n.updates,
         calls |-> <<Call("add_occupants", r, count)>>, ret |-> None]

\* add_occupants with the threshold test written count > 2.
add_occupants_gt(h, r, count) ==
    LET h1 == IF count > 2 THEN [h EXCEPT ![r].occupied = TRUE]
                           ELSE [h EXCEPT ![r].occupied = FALSE]
        msg == IF count > 2
               THEN Line("Room {} is now occupied by {} persons.", h[r].room_number, count, "")
               ELSE Line("Room {} occupancy insufficient to mark as occupied.", h[r].room_number, 0, "")
        n == notify_observers(h1, r)
    IN  [heap |-> n.heap, out |-> <<msg>> \o n.out, updates |-> n.updates,
         calls |-> <<Call("add_occupants", r, count)>>, ret |-> None]

add_occupants(h, r, count) ==
    LET h1 == IF count >= 2 THEN [h EXCEPT ![r].occupied = TRUE]
                            ELSE [h EXCEPT ![r].occupied = FALSE]
        msg == IF count >= 2
               THEN Line("Room {} is now occupied by {} persons.", h[r].room_number, count, "")
               ELSE Line("Room {} occupancy insufficient to mark as occupied.", h[r].room_number, 0, "")
        n == notify_observers(h1, r)
    IN  Effect(n.heap, <<msg>> \o n.out, n.updates,
               <<Call("add_occupants", r, count)>>)

release_occupants(h, r) ==
    LET h1 == [h EXCEPT ![r].occupied = FALSE]
        n == notify_observers(h1, r)
    IN  Effect(n.heap,
               <<Line("Room {} is now unoccupied.", h[r].room_number, 0, "")>> \o n.out,
               n.updates,
               <<Call("release_occupants", r, 0)>>)

\* ---------------------------------------------------------------- commands
BookRoomCommand(room, start_time, duration) ==
    [room |-> room, start_time |-> start_time, duration |-> duration]

CancelBookingCommand(room) == [room |-> room, start_time |-> "", duration |-> 0]

\* execute with the is_occupied test inverted.
BookRoomCommand_execute_inverted(h, c) ==
    IF is_occupied(h, c.room)
    THEN LET a == add_occupants(h, c.room, 2)
         IN  [heap |-> a.heap,
              out |-> <<Line("Room {} booked from {} for {} minutes.",
                             get_room_number(h, c.room), c.duration, c.start_time)>> \o a.out,
              updates |-> a.updates, calls |-> a.calls, ret |-> None]
    ELSE [heap |-> h,
          out |-> <<Line("Room {} is already booked.", get_room_number(h, c.room), 0, "")>>,
          updates |-> <<>>, calls |-> <<>>, ret |-> None]

\* execute without the is_occupied test: it books whatever the room's state.
BookRoomCommand_execute_unguarded(h, c) ==
    LET a == add_occupants(h, c.room, 2)
    IN  [heap |-> a.heap,
         out |-> <<Line("Room {} booked from {} for {} minutes.",
                        get_room_number(h, c.room), c.duration, c.start_time)>> \o a.out,
         updates |-> a.updates, calls |-> a.calls, ret |-> None]

BookRoomCommand_execute(h, c) ==
    IF ~is_occupied(h, c.room)
    THEN LET a == add_occupants(h, c.room, 2)
         IN  Effect(a.heap,
                    <<Line("Room {} booked from {} for {} minutes.",
                           get_room_number(h, c.room), c.duration, c.start_time)>> \o a.out,
                    a.updates, a.calls)
    ELSE Effect(h, <<Line("Room {} is already booked.", get_room_number(h, c.room), 0, "")>>,
                <<>>, <<>>)

\* execute printing the cancellation confirmation before it releases the room.
CancelBookingCommand_execute_confirm_first(h, c) ==
    IF is_occupied(h, c.room)
    THEN LET a == release_occupants(h, c.room)
         IN  [heap |-> a.heap,
              out |-> <<Line("Booking for Room {} cancelled successfully.",
                             get_room_number(h, c.room), 0, "")>> \o a.out,
              updates |-> a.updates, calls |-> a.calls, ret |-> None]
    ELSE [heap |-> h,
          out |-> <<Line("Room {} is not booked.", get_room_number(h, c.room), 0, "")>>,
          updates |-> <<>>, calls |-> <<>>, ret |-> None]

\* execute without the is_occupied test: it releases whatever the room's state.
CancelBookingCommand_execute_unguarded(h, c) ==
    LET a == release_occupants(h, c.room)
    IN  [heap |-> a.heap,
         out |-> a.out \o <<Line("Booking for Room {} cancelled successfully.",
                                 get_room_number(a.heap, c.room), 0, "")>>,
         updates |-> a.updates, calls |-> a.calls, ret |-> None]

CancelBookingCommand_execute(h, c) ==
    IF is_occupied(h, c.room)
    THEN LET a == release_occupants(h, c.room)
         IN  Effect(a.heap,
                    a.out \o <<Line("Booking for Room {} cancelled successfully.",
                                    get_room_number(a.heap, c.room), 0, "")>>,
                    a.updates, a.calls)
    ELSE Effect(h, <<Line("Room {} is not booked.", get_room_number(h, c.room), 0, "")>>,
                <<>>, <<>>)

\* ----------------------------------------------------------- OfficeManager
\* configure_rooms with every Room handed the two observer objects of the
\* first Room instead of fresh ones.
NewRooms_shared(count) ==
    [i \in 1 .. count |-> Room(i, 1, 2)]

\* configure_rooms: the Room objects the loop constructs, in order; object
\* i of the call gets the next free heap slot and two fresh observers.
NewRooms(count) ==
    [i \in 1 .. count |-> Room(i, Len(sensors) + 2 * i - 1, Len(sensors) + 2 * i)]

NewSensors(count) ==
    [j \in 1 .. 2 * count |-> IF j % 2 = 1 THEN "AC" ELSE "Lights"]

\* __new__ with the rooms list initialised on every request.
OfficeManager_new_reset(inst, ms) ==
    IF inst = 0
    THEN [instance |-> Len(ms) + 1, mgrs |-> Append(ms, <<>>)]
    ELSE [instance |-> inst, mgrs |-> [ms EXCEPT ![inst] = <<>>]]

\* OfficeManager.__new__: the instance returned and the manager objects after
\* the request; a new object, with an empty rooms list, only when there is none.
OfficeManager_new(inst, ms) ==
    IF inst = 0
    THEN [instance |-> Len(ms) + 1, mgrs |-> Append(ms, <<>>)]
    ELSE [instance |-> inst, mgrs |-> ms]

\* configure_rooms assigning a fresh list instead of appending.
configure_rooms_replace(rooms, count) ==
    [i \in 1 .. count |-> Len(heap) + i]

configure_rooms(rooms, count) ==
    rooms \o [i \in 1 .. count |-> Len(heap) + i]

\* get_room with the upper bound written room_number < len(self.rooms).
get_room_strict(rooms, room_number) ==
    IF 0 < room_number /\ room_number < Len(rooms)
    THEN [ret |-> RoomRef(rooms[room_number]), out |-> <<>>]
    ELSE [ret |-> None, out |-> <<Line("Invalid room number.", 0, 0, "")>>]

get_room(rooms, room_number) ==
    IF 0 < room_number /\ room_number <= Len(rooms)
    THEN [ret |-> RoomRef(rooms[room_number]), out |-> <<>>]
    ELSE [ret |-> None, out |-> <<Line("Invalid room number.", 0, 0, "")>>]

\* The history variable after the occupancy-changing calls of one method.
Record(calls) ==
    IF calls = <<>> THEN recorded
    ELSE LET c == calls[Len(calls)]
         IN  [recorded EXCEPT ![c.target] = (c.op = "add_occupants" /\ c.arg >= 2)]

\* ------------------------------------------- WeatherStation (KananGadhia.py)
\* The longest observer list the caller builds.
MaxObservers == 3

\* The observer objects of the caller: phone_display = PhoneDisplay(),
\* tv_display = TVDisplay().
Displays == {"phone_display", "tv_display"}

DisplayClass(observer) ==
    IF observer = "phone_display" THEN "PhoneDisplay" ELSE "TVDisplay"

\* The temperatures the caller sets.
Temperatures == {20, 25, 30}

\* PhoneDisplay.update / TVDisplay.update: the line the display prints (its
\* degree sign is left out of the text).
Display_update(observer, temperature) ==
    IF DisplayClass(observer) = "PhoneDisplay"
    THEN Line("Phone display shows temperature: {}C", 0, temperature, "")
    ELSE Line("TV display shows temperature: {}C", 0, temperature, "")

\* WeatherStation.__init__
WeatherStation == [observers |-> <<>>, temperature |-> 0]

\* The effect of a WeatherStation method: the station afterwards, the update
\* calls made, the lines they printed, the exception raised ("" for none).
StationEffect(st, u, o, raised) ==
    [station |-> st, updates |-> u, out |-> o, raised |-> raised]

WeatherStation_add_observer(st, observer) ==
    StationEffect([st EXCEPT !.observers = Append(@, observer)], <<>>, <<>>, "")

\* list.remove(x): the list without its first entry equal to x.
ListRemove(list, x) ==
    LET i == CHOOSE k \in 1 .. Len(list) :
                 list[k] = x /\ \A j \in 1 .. k - 1 : list[j] # x
    IN  SubSeq(list, 1, i - 1) \o SubSeq(list, i + 1, Len(list))

\* remove_observer deleting every entry of the observer.
WeatherStation_remove_observer_all(st, observer) ==
    IF \E k \in 1 .. Len(st.observers) : st.observers[k] = observer
    THEN [station |-> [st EXCEPT !.observers = SelectSeq(@, LAMBDA x : x # observer)],
          updates |-> <<>>, out |-> <<>>, raised |-> ""]
    ELSE [station |-> st, updates |-> <<>>, out |-> <<>>, raised |-> "ValueError"]

\* WeatherStation.remove_observer: list.remove raises ValueError when the
\* observer is not in the list, and the list is left as it was.
WeatherStation_remove_observer(st, observer) ==
    IF \E k \in 1 .. Len(st.observers) : st.observers[k] = observer
    THEN StationEffect([st EXCEPT !.observers = ListRemove(@, observer)], <<>>, <<>>, "")
    ELSE StationEffect(st, <<>>, <<>>, "ValueError")

\* WeatherStation.notify_observers: one update per entry of self.observers,
\* in list order, each passed self.temperature.
WeatherStation_notify_observers(st) ==
    StationEffect(st,
                  [i \in 1 .. Len(st.observers) |->
                      [observer |-> st.observers[i], temperature |-> st.temperature]],
                  [i \in 1 .. Len(st.observers) |->
                      Display_update(st.observers[i], st.temperature)],
                  "")

\* set_temperature notifying before it stores the temperature.
WeatherStation_set_temperature_notify_first(st, temperature) ==
    LET n == WeatherStation_notify_observers(st)
    IN  [station |-> [n.station EXCEPT !.temperature = temperature],
         updates |-> n.updates, out |-> n.out, raised |-> ""]

WeatherStation_set_temperature(st, temperature) ==
    WeatherStation_notify_observers([st EXCEPT !.temperature = temperature])

\* ------------------------------------------ sorting strategies (KananGadhia.py)
\* The longest array the caller sorts, and the number of execute_strategy
\* calls it makes on it.
MaxLen == 4

MaxRuns == 2

\* The elements of the arrays.
Values == 0 .. 2

Arrays == UNION {[1 .. n -> Values] : n \in 0 .. MaxLen}

\* BubbleSort() / QuickSort(): strategy objects without fields.
BubbleSort == [kind |-> "BubbleSort", id |-> 0]

QuickSort == [kind |-> "QuickSort", id |-> 0]

\* array[i], with Python's 0-based index.
At(a, i) == a[i + 1]

\* array[i], array[j] = array[j], array[i]
Swap(a, i, j) == [a EXCEPT ![i + 1] = a[j + 1], ![j + 1] = a[i + 1]]

RECURSIVE BubbleInner_short(_, _, _, _)
BubbleInner_short(a, n, i, j) ==
    IF j >= n - i - 2 THEN a
    ELSE BubbleInner_short(IF At(a, j) > At(a, j + 1) THEN Swap(a, j, j + 1) ELSE a,
                           n, i, j + 1)

RECURSIVE BubbleOuter_short(_, _, _)
BubbleOuter_short(a, n, i) ==
    IF i >= n - 1 THEN a
    ELSE BubbleOuter_short(BubbleInner_short(a, n, i, 0), n, i + 1)

\* BubbleSort.sort with the inner loop written range(n - i - 2).
BubbleSort_sort_short(a) == BubbleOuter_short(a, Len(a), 0)

\* for j in range(n - i - 1): from j on.
RECURSIVE BubbleInner(_, _, _, _)
BubbleInner(a, n, i, j) ==
    IF j >= n - i - 1 THEN a
    ELSE BubbleInner(IF At(a, j) > At(a, j + 1) THEN Swap(a, j, j + 1) ELSE a,
                     n, i, j + 1)

\* for i in range(n - 1): from i on.
RECURSIVE BubbleOuter(_, _, _)
BubbleOuter(a, n, i) ==
    IF i >= n - 1 THEN a
    ELSE BubbleOuter(BubbleInner(a, n, i, 0), n, i + 1)

\* BubbleSort.sort: the contents of the list when sort returns.
BubbleSort_sort(a) == BubbleOuter(a, Len(a), 0)

\* for j in range(low, high): from j on; the array and i when the loop ends.
RECURSIVE PartitionLoop(_, _, _, _, _)
PartitionLoop(a, pivot, i, j, high) ==
    IF j >= high THEN [array |-> a, i |-> i]
    ELSE IF At(a, j) <= pivot
         THEN PartitionLoop(Swap(a, i + 1, j), pivot, i + 1, j + 1, high)
         ELSE PartitionLoop(a, pivot, i, j + 1, high)

\* QuickSort.partition: the array afterwards and the pivot index returned.
partition(a, low, high) ==
    LET l == PartitionLoop(a, At(a, high), low - 1, low, high)
    IN  [array |-> Swap(l.array, l.i + 1, high), pi |-> l.i + 1]

\* QuickSort.quick_sort
RECURSIVE quick_sort(_, _, _)
quick_sort(a, low, high) ==
    IF low < high
    THEN LET p == partition(a, low, high)
         IN  quick_sort(quick_sort(p.array, low, p.pi - 1), p.pi + 1, high)
    ELSE a

\* QuickSort.sort: the contents of the list when sort returns.
QuickSort_sort(a) == quick_sort(a, 0, Len(a) - 1)

\* self.strategy.sort(array)
Strategy_sort(s, a) ==
    IF s = BubbleSort THEN BubbleSort_sort(a) ELSE QuickSort_sort(a)

\* -------------------------------------------------------------------- Init
InitRooms ==
    /\ _instance = 0
    /\ mgrs = <<>>
    /\ heap = <<>>
    /\ sensors = <<>>
    /\ book_cmd = NoCommand
    /\ cancel_cmd = NoCommand
    /\ lastOp = NoCall
    /\ ret = None
    /\ out = <<>>
    /\ updates = <<>>
    /\ recorded = <<>>
    /\ book_runs = 0
    /\ twin_heap = <<>>
    /\ twin_updates = <<>>

\* station = WeatherStation(), no call made yet.
InitStation ==
    /\ station = WeatherStation
    /\ station_last = [call |-> NoCall, updates |-> <<>>, out |-> <<>>, raised |-> ""]

\* context = SortContext(), nothing executed yet.
InitContext ==
    /\ strategy = None
    /\ runs = <<>>

\* The room program, the demos of KananGadhia.py not started (no array built).
Init ==
    /\ InitRooms
    /\ InitStation
    /\ InitContext
    /\ array = <<>>
    /\ input = <<>>

\* The strategy demo: the caller has built any array of the bounded domain.
InitSort ==
    /\ InitRooms
    /\ InitStation
    /\ InitContext
    /\ array \in Arrays
    /\ input = array

\* ----------------------------------------------------------------- actions
\* A method of Room r called by the caller, with effect e.
RoomStep(effect, call) ==
    \E e \in {effect} :
        /\ heap' = e.heap
        /\ out' = e.out
        /\ updates' = e.updates
        /\ recorded' = Record(e.calls)
        /\ lastOp' = call
        /\ ret' = e.ret
        /\ UNCHANGED <<_instance, mgrs, sensors, book_cmd, cancel_cmd, station_vars, sort_vars, twin_vars>>

\* OfficeManager(): __new__ builds the object on the first request only.
NewOfficeManager ==
    /\ lastOp = NoCall
    /\ \E n \in {OfficeManager_new(_instance, mgrs)} :
        /\ _instance' = n.instance
        /\ mgrs' = n.mgrs
        /\ ret' = ManagerRef(n.instance)
    /\ lastOp' = Call("OfficeManager", 0, 0)
    /\ out' = <<>>
    /\ updates' = <<>>
    /\ UNCHANGED <<heap, sensors, book_cmd, cancel_cmd, recorded, book_runs, station_vars, sort_vars, twin_vars>>

ConfigureRooms ==
    /\ lastOp = NoCall
    /\ \E m \in 1 .. Len(mgrs), count \in ConfigCounts :
        /\ Len(heap) + count <= MaxRooms
        /\ mgrs' = [mgrs EXCEPT ![m] = configure_rooms(mgrs[m], count)]
        /\ heap' = heap \o NewRooms(count)
        /\ sensors' = sensors \o NewSensors(count)
        /\ recorded' = recorded \o [i \in 1 .. count |-> FALSE]
        /\ out' = <<Line("Office configured with {} meeting rooms.", 0, count, "")>>
        /\ updates' = <<>>
        /\ ret' = None
        /\ lastOp' = Call("configure_rooms", m, count)
        /\ UNCHANGED <<_instance, book_cmd, cancel_cmd, book_runs, station_vars, sort_vars, twin_vars>>

GetRoom ==
    /\ lastOp = NoCall
    /\ \E m \in 1 .. Len(mgrs), k \in RoomNumbers :
        /\ \E g \in {get_room(mgrs[m], k)} : ret' = g.ret /\ out' = g.out
        /\ updates' = <<>>
        /\ lastOp' = Call("get_room", m, k)
        /\ UNCHANGED <<_instance, mgrs, heap, sensors, book_cmd, cancel_cmd, recorded, book_runs,
                       station_vars, sort_vars, twin_vars>>

SetMaxCapacity ==
    /\ lastOp = NoCall
    /\ \E r \in 1 .. Len(heap), n \in Caps :
        RoomStep(set_max_capacity(heap, r, n), Call("set_max_capacity", r, n))
    /\ UNCHANGED book_runs

AddOccupants ==
    /\ lastOp = NoCall
    /\ \E r \in 1 .. Len(heap), count \in Counts :
        RoomStep(add_occupants(heap, r, count), Call("add_occupants", r, count))
    /\ UNCHANGED book_runs

ReleaseOccupants ==
    /\ lastOp = NoCall
    /\ \E r \in 1 .. Len(heap) :
        RoomStep(release_occupants(heap, r), Call("release_occupants", r, 0))
    /\ UNCHANGED book_runs

IsOccupied ==
    /\ lastOp = NoCall
    /\ \E r \in 1 .. Len(heap) :
        RoomStep([Effect(heap, <<>>, <<>>, <<>>) EXCEPT !.ret = BoolVal(is_occupied(heap, r))],
                 Call("is_occupied", r, 0))
    /\ UNCHANGED book_runs

\* book_room1 = BookRoomCommand(room, start_time, duration)
BuildBook ==
    /\ lastOp = NoCall
    /\ \E r \in 1 .. Len(heap), s \in StartTimes, d \in Durations :
        /\ book_cmd' = BookRoomCommand(r, s, d)
        /\ lastOp' = Call("BookRoomCommand", r, d)
        /\ ret' = None
        /\ out' = <<>>
        /\ updates' = <<>>
        /\ UNCHANGED <<_instance, mgrs, heap, sensors, cancel_cmd, recorded, station_vars, sort_vars, twin_vars>>

NewBookRoomCommand == BuildBook /\ UNCHANGED book_runs

\* The same step, counting: the new object has not executed yet.
NewBookRoomCommandCounted == BuildBook /\ book_runs' = 0

NewCancelBookingCommand ==
    /\ lastOp = NoCall
    /\ \E r \in 1 .. Len(heap) :
        /\ cancel_cmd' = CancelBookingCommand(r)
        /\ lastOp' = Call("CancelBookingCommand", r, 0)
        /\ ret' = None
        /\ out' = <<>>
        /\ updates' = <<>>
        /\ UNCHANGED <<_instance, mgrs, heap, sensors, book_cmd, recorded, book_runs, station_vars, sort_vars, twin_vars>>

\* book_room1.execute()
RunBook ==
    /\ lastOp = NoCall
    /\ book_cmd # NoCommand
    /\ RoomStep(BookRoomCommand_execute(heap, book_cmd),
                Call("BookRoomCommand.execute", book_cmd.room, 0))

ExecuteBook == RunBook /\ UNCHANGED book_runs

\* The lines of an execute open with the booking confirmation.
ReportsBooked(lines) ==
    lines # <<>> /\ lines[1].text = "Room {} booked from {} for {} minutes."

\* The same step, counting the executions that report success.
ExecuteBookCounted ==
    /\ RunBook
    /\ book_runs' = IF ~ReportsBooked(out') THEN book_runs
                    ELSE IF book_runs = 0 THEN 1 ELSE 2

ExecuteCancel ==
    /\ lastOp = NoCall
    /\ cancel_cmd # NoCommand
    /\ RoomStep(CancelBookingCommand_execute(heap, cancel_cmd),
                Call("CancelBookingCommand.execute", cancel_cmd.room, 0))
    /\ UNCHANGED book_runs

\* The caller goes on to its next statement; the result of the call that
\* returned is dropped.
Continue ==
    /\ lastOp # NoCall
    /\ lastOp' = NoCall
    /\ ret' = None
    /\ out' = <<>>
    /\ updates' = <<>>
    /\ UNCHANGED <<_instance, mgrs, heap, sensors, book_cmd, cancel_cmd, recorded, book_runs,
                   station_vars, sort_vars, twin_vars>>

Next ==
    \/ Continue
    \/ NewOfficeManager
    \/ ConfigureRooms
    \/ GetRoom
    \/ SetMaxCapacity
    \/ AddOccupants
    \/ ReleaseOccupants
    \/ IsOccupied
    \/ NewBookRoomCommand
    \/ NewCancelBookingCommand
    \/ ExecuteBook
    \/ ExecuteCancel

Spec == Init /\ [][Next]_vars

\* The same caller, with the executions of the Book command object counted
\* (without the two reads get_room and is_occupied, which assign nothing).
NextBooking ==
    \/ Continue
    \/ NewOfficeManager
    \/ ConfigureRooms
    \/ SetMaxCapacity
    \/ AddOccupants
    \/ ReleaseOccupants
    \/ NewBookRoomCommandCounted
    \/ NewCancelBookingCommand
    \/ ExecuteBookCounted
    \/ ExecuteCancel

SpecBooking == Init /\ [][NextBooking]_vars

\* ------------------------------------------------------ two runs side by side
\* The most Room objects each of the two runs configures.
MaxTwinRooms == 1

\* The same call made in both runs: effect e on the first run's Rooms, effect
\* twin on the second run's.
TwinStep(effect, twin, call) ==
    \E e \in {effect} :
        /\ heap' = e.heap
        /\ out' = e.out
        /\ updates' = e.updates
        /\ recorded' = Record(e.calls)
        /\ lastOp' = call
        /\ ret' = e.ret
        /\ twin_heap' = twin.heap
        /\ twin_updates' = twin.updates
        /\ UNCHANGED <<_instance, mgrs, sensors, book_cmd, cancel_cmd, book_runs,
                       station_vars, sort_vars>>

\* configure_rooms(count), in both runs.
TwinConfigureRooms ==
    /\ lastOp = NoCall
    /\ \E m \in 1 .. Len(mgrs), count \in ConfigCounts :
        /\ Len(heap) + count <= MaxTwinRooms
        /\ mgrs' = [mgrs EXCEPT ![m] = configure_rooms(mgrs[m], count)]
        /\ heap' = heap \o NewRooms(count)
        /\ twin_heap' = twin_heap \o NewRooms(count)
        /\ sensors' = sensors \o NewSensors(count)
        /\ recorded' = recorded \o [i \in 1 .. count |-> FALSE]
        /\ out' = <<Line("Office configured with {} meeting rooms.", 0, count, "")>>
        /\ updates' = <<>>
        /\ ret' = None
        /\ lastOp' = Call("configure_rooms", m, count)
        /\ UNCHANGED <<_instance, book_cmd, cancel_cmd, book_runs, station_vars, sort_vars,
                       twin_updates>>

\* set_max_capacity(n) on a Room, in the second run only (SetMaxCapacity is
\* the call in the first run only).
SecondSetMaxCapacity ==
    /\ lastOp = NoCall
    /\ \E r \in 1 .. Len(twin_heap), n \in Caps :
        \E e \in {set_max_capacity(twin_heap, r, n)} :
            /\ twin_heap' = e.heap
            /\ twin_updates' = e.updates
    /\ UNCHANGED <<room_vars, station_vars, sort_vars>>

TwinAddOccupants ==
    /\ lastOp = NoCall
    /\ \E r \in 1 .. Len(heap), count \in Counts :
        TwinStep(add_occupants(heap, r, count), add_occupants(twin_heap, r, count),
                 Call("add_occupants", r, count))

TwinReleaseOccupants ==
    /\ lastOp = NoCall
    /\ \E r \in 1 .. Len(heap) :
        TwinStep(release_occupants(heap, r), release_occupants(twin_heap, r),
                 Call("release_occupants", r, 0))

TwinExecuteBook ==
    /\ lastOp = NoCall
    /\ book_cmd # NoCommand
    /\ TwinStep(BookRoomCommand_execute(heap, book_cmd),
                BookRoomCommand_execute(twin_heap, book_cmd),
                Call("BookRoomCommand.execute", book_cmd.room, 0))

TwinExecuteCancel ==
    /\ lastOp = NoCall
    /\ cancel_cmd # NoCommand
    /\ TwinStep(CancelBookingCommand_execute(heap, cancel_cmd),
                CancelBookingCommand_execute(twin_heap, cancel_cmd),
                Call("CancelBookingCommand.execute", cancel_cmd.room, 0))

\* Both callers go on to their next statement.
TwinContinue ==
    /\ lastOp # NoCall
    /\ lastOp' = NoCall
    /\ ret' = None
    /\ out' = <<>>
    /\ updates' = <<>>
    /\ twin_updates' = <<>>
    /\ UNCHANGED <<_instance, mgrs, heap, sensors, book_cmd, cancel_cmd, recorded, book_runs,
                   station_vars, sort_vars, twin_heap>>

NextTwin ==
    \/ TwinContinue
    \/ NewOfficeManager
    \/ TwinConfigureRooms
    \/ SetMaxCapacity
    \/ SecondSetMaxCapacity
    \/ TwinAddOccupants
    \/ TwinReleaseOccupants
    \/ NewBookRoomCommand
    \/ NewCancelBookingCommand
    \/ TwinExecuteBook
    \/ TwinExecuteCancel

SpecTwin == Init /\ [][NextTwin]_vars

\* ------------------------------------------------ actions of KananGadhia.py
\* A WeatherStation method called by the caller, with effect e.
StationStep(e, call) ==
    /\ station' = e.station
    /\ station_last' = [call |-> call, updates |-> e.updates, out |-> e.out,
                        raised |-> e.raised]
    /\ UNCHANGED <<room_vars, sort_vars, twin_vars>>

AddObserver ==
    /\ Len(station.observers) < MaxObservers
    /\ \E observer \in Displays :
           StationStep(WeatherStation_add_observer(station, observer),
                       Call("add_observer", observer, 0))

RemoveObserver ==
    \E observer \in Displays :
        StationStep(WeatherStation_remove_observer(station, observer),
                    Call("remove_observer", observer, 0))

SetTemperature ==
    \E temperature \in Temperatures :
        StationStep(WeatherStation_set_temperature(station, temperature),
                    Call("set_temperature", 0, temperature))

NextWeather ==
    \/ AddObserver
    \/ RemoveObserver
    \/ SetTemperature

SpecWeather == Init /\ [][NextWeather]_vars

\* context.set_strategy(BubbleSort()) / context.set_strategy(QuickSort())
SetStrategy ==
    /\ \E s \in {BubbleSort, QuickSort} : strategy' = s
    /\ UNCHANGED <<room_vars, station_vars, twin_vars, array, input, runs>>

\* context.execute_strategy(array): the strategy sorts the list in place (with
\* strategy still None the call raises AttributeError and touches nothing).
ExecuteStrategy ==
    /\ strategy # None
    /\ Len(runs) < MaxRuns
    /\ array' = Strategy_sort(strategy, array)
    /\ runs' = Append(runs, strategy)
    /\ UNCHANGED <<room_vars, station_vars, twin_vars, strategy, input>>

NextSort ==
    \/ SetStrategy
    \/ ExecuteStrategy

SpecSort == InitSort /\ [][NextSort]_vars

\* ================================================================== claims
RoomIds == 1 .. Len(heap)

\* The two update calls a notification of Room r makes, as seen in the state
\* after it: the room's AC, then its Lights, each with the occupied flag.
ExpectedUpdates(h, r) ==
    <<[sensor |-> h[r].observers[1], is_occupied |-> h[r].occupied],
      [sensor |-> h[r].observers[2], is_occupied |-> h[r].occupied]>>

\* C1: a Room is occupied exactly when the most recent occupancy-changing
\* call on it (add_occupants or release_occupants, made directly or by a Book or
\* Cancel command) was add_occupants(count) with count >= 2; add_occupants(count)
\* leaves is_occupied() equal to count >= 2 for every count, release_occupants
\* leaves it false, and a Room never touched is unoccupied.
C1_OccupiedIffLastCallRecordedTwo ==
    /\ \A r \in RoomIds : is_occupied(heap, r) <=> recorded[r]
    /\ lastOp.op = "add_occupants"
           => (is_occupied(heap, lastOp.target) <=> lastOp.arg >= 2)
    /\ lastOp.op = "release_occupants" => ~is_occupied(heap, lastOp.target)
    /\ lastOp.op = "configure_rooms"
           => \A r \in RoomIds : r > Len(heap) - lastOp.arg => ~is_occupied(heap, r)

\* C1 witness: add_occupants with a count of 0 or less has just left its room
\* unoccupied while another room is occupied.
C1_Witness ==
    /\ lastOp.op = "add_occupants"
    /\ lastOp.arg <= 0
    /\ ~is_occupied(heap, lastOp.target)
    /\ \E r \in RoomIds : r # lastOp.target /\ is_occupied(heap, r)

\* C2: every add_occupants or release_occupants call (direct, or made by an
\* accepted Book or Cancel) makes exactly one update call on each of the room's
\* two sensors, AC first and Lights second, each carrying the occupied flag the
\* call has written, also when the flag did not change; set_max_capacity,
\* is_occupied, get_room, every other operation and a rejected Book or Cancel
\* make no update call.
C2_Step ==
    LET op == lastOp'.op
        r == lastOp'.target
        notified == /\ updates' = ExpectedUpdates(heap', r)
                    /\ sensors'[heap'[r].observers[1]] = "AC"
                    /\ sensors'[heap'[r].observers[2]] = "Lights"
                    /\ Len(heap'[r].observers) = 2
    IN  /\ op \in {"add_occupants", "release_occupants"} => notified
        /\ op = "BookRoomCommand.execute"
               => IF is_occupied(heap, r) THEN updates' = <<>> ELSE notified
        /\ op = "CancelBookingCommand.execute"
               => IF is_occupied(heap, r) THEN notified ELSE updates' = <<>>
        /\ op \notin {"add_occupants", "release_occupants",
                      "BookRoomCommand.execute", "CancelBookingCommand.execute"}
               => updates' = <<>>

C2_OneUpdatePerSensorInOrder == [][C2_Step]_vars

\* C2 witness: add_occupants(0) has notified both sensors with "unoccupied",
\* the flag having been false already or not.
C2_Witness ==
    /\ lastOp.op = "add_occupants"
    /\ lastOp.arg = 0
    /\ updates = ExpectedUpdates(heap, lastOp.target)
    /\ ~updates[1].is_occupied

\* C3: executing a Book command on an unoccupied room records 2 occupants,
\* leaves the room occupied and first prints the confirmation with the command's
\* start time and duration; on an occupied room it prints the conflict line and
\* changes no Room (occupied, max_capacity) and notifies no sensor. Executing the
\* same command again right after any execute is a conflict.
C3_Step ==
    lastOp'.op = "BookRoomCommand.execute" =>
        LET r == book_cmd.room
            again == BookRoomCommand_execute(heap', book_cmd')
        IN  /\ IF ~is_occupied(heap, r)
               THEN /\ is_occupied(heap', r)
                    /\ out'[1] = Line("Room {} booked from {} for {} minutes.",
                                      heap[r].room_number, book_cmd.duration,
                                      book_cmd.start_time)
                    /\ out'[2] = Line("Room {} is now occupied by {} persons.",
                                      heap[r].room_number, 2, "")
                    /\ heap' = [heap EXCEPT ![r].occupied = TRUE]
               ELSE /\ out' = <<Line("Room {} is already booked.", heap[r].room_number, 0, "")>>
                    /\ heap' = heap
                    /\ updates' = <<>>
            /\ again.out = <<Line("Room {} is already booked.", heap[r].room_number, 0, "")>>
            /\ again.heap = heap'
            /\ again.updates = <<>>

C3_BookSucceedsOrConflicts == [][C3_Step]_vars

\* C3 witness: a Book command was rejected on an occupied room whose capacity
\* had been set.
C3_Witness ==
    /\ lastOp.op = "BookRoomCommand.execute"
    /\ out = <<Line("Room {} is already booked.", heap[lastOp.target].room_number, 0, "")>>
    /\ heap[lastOp.target].max_capacity > 0
    /\ is_occupied(heap, lastOp.target)

\* C4: executing a Cancel command on an occupied room leaves it unoccupied
\* and prints the cancellation confirmation; on an unoccupied room it prints the
\* not-booked line and changes no Room (occupied, max_capacity) and notifies no
\* sensor.
C4_Step ==
    lastOp'.op = "CancelBookingCommand.execute" =>
        LET r == cancel_cmd.room
        IN  IF is_occupied(heap, r)
            THEN /\ ~is_occupied(heap', r)
                 /\ heap' = [heap EXCEPT ![r].occupied = FALSE]
                 /\ out'[Len(out')] = Line("Booking for Room {} cancelled successfully.",
                                           heap[r].room_number, 0, "")
            ELSE /\ out' = <<Line("Room {} is not booked.", heap[r].room_number, 0, "")>>
                 /\ heap' = heap
                 /\ updates' = <<>>

C4_CancelSucceedsOrNoOp == [][C4_Step]_vars

\* C4 witness: a Cancel command was rejected on an unoccupied room whose
\* capacity had been set.
C4_Witness ==
    /\ lastOp.op = "CancelBookingCommand.execute"
    /\ out = <<Line("Room {} is not booked.", heap[lastOp.target].room_number, 0, "")>>
    /\ heap[lastOp.target].max_capacity > 0
    /\ ~is_occupied(heap, lastOp.target)

\* C5: in every registry the Room at 1-based position k has room number k,
\* so room numbers are pairwise distinct and get_room(k).get_room_number() = k
\* for every valid k, after any sequence of configure_rooms calls.
C5_RoomNumberIsPosition ==
    \A m \in 1 .. Len(mgrs) :
        /\ \A k \in 1 .. Len(mgrs[m]) :
               /\ get_room(mgrs[m], k).ret.kind = "Room"
               /\ get_room_number(heap, get_room(mgrs[m], k).ret.id) = k
        /\ \A j, k \in 1 .. Len(mgrs[m]) :
               j # k => get_room_number(heap, mgrs[m][j]) # get_room_number(heap, mgrs[m][k])

\* C6: get_room(k) returns a Room exactly when 1 <= k <= the number of rooms
\* in the registry, and then the Room at position k; for every other k it prints
\* the invalid-room-number line and returns None; either way the registry and
\* every Room are left as they were.
C6_Step ==
    lastOp'.op = "get_room" =>
        LET k == lastOp'.arg
            rooms == mgrs[lastOp'.target]
        IN  /\ ret'.kind = "Room" <=> (1 <= k /\ k <= Len(rooms))
            /\ ret'.kind = "Room" => ret' = RoomRef(rooms[k]) /\ out' = <<>>
            /\ ret'.kind # "Room"
                   => ret' = None /\ out' = <<Line("Invalid room number.", 0, 0, "")>>
            /\ UNCHANGED <<_instance, mgrs, heap, sensors>>

C6_GetRoomIffInRange == [][C6_Step]_vars

\* C6 witness: get_room(n + 1) on a registry of n >= 1 rooms returned None.
C6_Witness ==
    /\ lastOp.op = "get_room"
    /\ Len(mgrs[lastOp.target]) >= 1
    /\ lastOp.arg = Len(mgrs[lastOp.target]) + 1
    /\ ret = None

\* C7: at most one OfficeManager object ever exists; every OfficeManager()
\* request returns that object, and a request made when it already exists
\* changes neither its rooms list nor any Room.
C7_Step ==
    /\ Len(mgrs') <= 1
    /\ _instance # 0 => _instance' = _instance
    /\ lastOp'.op = "OfficeManager" =>
           /\ ret' = ManagerRef(_instance')
           /\ _instance' # 0
           /\ _instance # 0 => mgrs' = mgrs /\ heap' = heap

C7_SingleInstanceKeepsRooms == [][C7_Step]_vars

\* C7 witness: OfficeManager() has returned while the registry holds rooms,
\* one of them occupied and with a capacity set.
C7_Witness ==
    /\ lastOp.op = "OfficeManager"
    /\ _instance # 0
    /\ Len(mgrs[_instance]) >= 1
    /\ \E r \in RoomIds : is_occupied(heap, r) /\ heap[r].max_capacity > 0

\* C8: set_max_capacity(n) sets max_capacity to n and prints the confirmation
\* when n > 0; for n <= 0 it leaves max_capacity as it was and prints the
\* invalid-capacity line; it never changes an occupied flag. No other operation
\* changes the max_capacity of an existing Room, a new Room has max_capacity 0,
\* and max_capacity is never negative.
C8_Step ==
    /\ \A r \in 1 .. Len(heap') : heap'[r].max_capacity >= 0
    /\ \A r \in 1 .. Len(heap') : r > Len(heap) => heap'[r].max_capacity = 0
    /\ IF lastOp'.op = "set_max_capacity"
       THEN LET r == lastOp'.target
                n == lastOp'.arg
            IN  /\ n > 0 => heap' = [heap EXCEPT ![r].max_capacity = n]
                /\ n > 0 => out' = <<Line("Room {} maximum capacity set to {}.",
                                          heap[r].room_number, n, "")>>
                /\ n <= 0 => heap' = heap
                /\ n <= 0 => out' = <<Line("Invalid capacity. Please enter a valid positive number.",
                                           0, 0, "")>>
                /\ \A q \in RoomIds : is_occupied(heap', q) = is_occupied(heap, q)
       ELSE \A r \in RoomIds : heap'[r].max_capacity = heap[r].max_capacity

C8_CapacitySetIffPositive == [][C8_Step]_vars

\* C8 witness: set_max_capacity with n <= 0 has returned on a room whose
\* capacity had been set to 2 after it was first set.
C8_Witness ==
    /\ lastOp.op = "set_max_capacity"
    /\ lastOp.arg <= 0
    /\ heap[lastOp.target].max_capacity = 2
    /\ is_occupied(heap, lastOp.target)

\* C9: configure_rooms(count) on a registry appends: the registry then holds
\* count more rooms (none more when count <= 0), its earlier positions hold the
\* same Room objects, and no existing Room's fields change.
C9_Step ==
    lastOp'.op = "configure_rooms" =>
        LET m == lastOp'.target
            count == lastOp'.arg
        IN  /\ Len(mgrs'[m]) = Len(mgrs[m]) + (IF count > 0 THEN count ELSE 0)
            /\ \A k \in 1 .. Len(mgrs[m]) : mgrs'[m][k] = mgrs[m][k]
            /\ \A r \in RoomIds : heap'[r] = heap[r]

C9_ConfigureAppends == [][C9_Step]_vars

\* C9 witness: a second configure_rooms call with count >= 1 has returned on
\* a registry that already held a room, which is occupied with a capacity set.
C9_Witness ==
    /\ lastOp.op = "configure_rooms"
    /\ lastOp.arg >= 1
    /\ Len(mgrs[lastOp.target]) > lastOp.arg
    /\ is_occupied(heap, mgrs[lastOp.target][1])
    /\ heap[mgrs[lastOp.target][1]].max_capacity > 0

\* The same call made where it succeeds: the command executed on the heap
\* with its room free (Book) or taken (Cancel).
BookWhenFree(h, c) == BookRoomCommand_execute([h EXCEPT ![c.room].occupied = FALSE], c)

CancelWhenTaken(h, c) == CancelBookingCommand_execute([h EXCEPT ![c.room].occupied = TRUE], c)

\* C10 as stated: for each of the four error conditions the value returned by
\* the failing call differs from the value the corresponding successful call
\* returns.
C10_Original_Step ==
    /\ (lastOp'.op = "set_max_capacity" /\ lastOp'.arg <= 0)
           => \A n \in Caps :
                  n > 0 => ret' # set_max_capacity(heap, lastOp'.target, n).ret
    /\ (lastOp'.op = "get_room" /\ ~(1 <= lastOp'.arg /\ lastOp'.arg <= Len(mgrs[lastOp'.target])))
           => \A k \in 1 .. Len(mgrs[lastOp'.target]) :
                  ret' # get_room(mgrs[lastOp'.target], k).ret
    /\ (lastOp'.op = "BookRoomCommand.execute" /\ is_occupied(heap, book_cmd.room))
           => ret' # BookWhenFree(heap, book_cmd).ret
    /\ (lastOp'.op = "CancelBookingCommand.execute" /\ ~is_occupied(heap, cancel_cmd.room))
           => ret' # CancelWhenTaken(heap, cancel_cmd).ret

C10_Original == [][C10_Original_Step]_vars

\* C10 amended: each of the four error conditions is surfaced by a printed
\* line that the corresponding successful call does not print; get_room alone
\* also signals it in its return value (None instead of a Room), while
\* set_max_capacity, Book execute and Cancel execute return None on failure as
\* on success; the failing call returns to the caller (the step ends with a
\* returned value, the methods having no raise statement).
C10_Step ==
    /\ (lastOp'.op = "set_max_capacity" /\ lastOp'.arg <= 0)
           => /\ out' = <<Line("Invalid capacity. Please enter a valid positive number.", 0, 0, "")>>
              /\ \A n \in Caps :
                     n > 0 => LET ok == set_max_capacity(heap, lastOp'.target, n)
                              IN  /\ \A i \in 1 .. Len(ok.out) : ok.out[i] # out'[1]
                                  /\ ok.out # <<>>
                                  /\ ret' = ok.ret
              /\ ret' = None
    /\ (lastOp'.op = "get_room" /\ ~(1 <= lastOp'.arg /\ lastOp'.arg <= Len(mgrs[lastOp'.target])))
           => /\ out' = <<Line("Invalid room number.", 0, 0, "")>>
              /\ ret' = None
              /\ \A k \in 1 .. Len(mgrs[lastOp'.target]) :
                     LET ok == get_room(mgrs[lastOp'.target], k)
                     IN  ok.ret # ret' /\ ok.ret.kind = "Room" /\ ok.out = <<>>
    /\ (lastOp'.op = "BookRoomCommand.execute" /\ is_occupied(heap, book_cmd.room))
           => LET ok == BookWhenFree(heap, book_cmd)
              IN  /\ out' = <<Line("Room {} is already booked.",
                                   heap[book_cmd.room].room_number, 0, "")>>
                  /\ \A i \in 1 .. Len(ok.out) : ok.out[i] # out'[1]
                  /\ ok.out # <<>>
                  /\ ret' = ok.ret
                  /\ ret' = None
    /\ (lastOp'.op = "CancelBookingCommand.execute" /\ ~is_occupied(heap, cancel_cmd.room))
           => LET ok == CancelWhenTaken(heap, cancel_cmd)
              IN  /\ out' = <<Line("Room {} is not booked.",
                                   heap[cancel_cmd.room].room_number, 0, "")>>
                  /\ \A i \in 1 .. Len(ok.out) : ok.out[i] # out'[1]
                  /\ ok.out # <<>>
                  /\ ret' = ok.ret
                  /\ ret' = None

C10_ErrorsPrintedNotReturned == [][C10_Step]_vars

\* C10 witness: a rejected Cancel has returned None to the caller after
\* printing the not-booked line.
C10_Witness ==
    /\ lastOp.op = "CancelBookingCommand.execute"
    /\ out = <<Line("Room {} is not booked.", heap[lastOp.target].room_number, 0, "")>>
    /\ ret = None

\* Hypothetical Book command objects on Room r, over every time slot.
AnyBookOn(r) == {BookRoomCommand(r, s, d) : s \in StartTimes, d \in Durations \cup {30}}

\* The call that has just returned cleared the occupancy of Room r: a
\* release_occupants (direct or by an accepted Cancel) or an add_occupants with
\* count < 2.
ClearingCall(call, lines, r) ==
    /\ call.target = r
    /\ \/ call.op = "release_occupants"
       \/ call.op = "add_occupants" /\ call.arg < 2
       \/ /\ call.op = "CancelBookingCommand.execute"
          /\ lines # <<>>
          /\ lines[1].text = "Room {} is now unoccupied."

\* C11: a Book execute reports success only if the last occupancy-changing
\* call on its Room was a clearing one (or there was none), so between two
\* successful Book executes on a Room there is a clearing call; right after a
\* successful Book every Book command on that Room, whatever its object or time
\* slot, is a conflict; execute leaves the command object as it is, and right
\* after a clearing call on its Room the caller's Book command, executed before
\* or not, and any other Book command on that Room executes with success.
C11_Step ==
    /\ (lastOp'.op = "BookRoomCommand.execute" /\ ReportsBooked(out'))
           => /\ ~recorded[lastOp'.target]
              /\ \A c \in AnyBookOn(lastOp'.target) :
                     ~ReportsBooked(BookRoomCommand_execute(heap', c).out)
    /\ lastOp'.op = "BookRoomCommand.execute" => book_cmd' = book_cmd
    /\ \A r \in 1 .. Len(heap') :
           ClearingCall(lastOp', out', r)
               => \A c \in AnyBookOn(r) \cup (IF book_cmd'.room = r THEN {book_cmd'} ELSE {}) :
                      ReportsBooked(BookRoomCommand_execute(heap', c).out)

C11_BookGuardedByRoomState == [][C11_Step]_vars

\* C11 witness: one Book command object has just executed with success for
\* the second time.
C11_Witness ==
    /\ lastOp.op = "BookRoomCommand.execute"
    /\ ReportsBooked(out)
    /\ book_runs = 2

\* The message texts of a printed output, in print order.
Texts(lines) == [i \in 1 .. Len(lines) |-> lines[i].text]

\* C12: an accepted Book execute prints, in this order, the booking
\* confirmation, the now-occupied line, 'AC turned on.' and 'Lights turned on.';
\* an accepted Cancel execute prints the now-unoccupied line, 'AC turned off.',
\* 'Lights turned off.' and then the cancellation confirmation; a rejected Book
\* or Cancel prints exactly one line.
C12_Step ==
    /\ lastOp'.op = "BookRoomCommand.execute" =>
           IF ~is_occupied(heap, book_cmd.room)
           THEN Texts(out') = <<"Room {} booked from {} for {} minutes.",
                                "Room {} is now occupied by {} persons.",
                                "AC turned on.", "Lights turned on.">>
           ELSE Len(out') = 1
    /\ lastOp'.op = "CancelBookingCommand.execute" =>
           IF is_occupied(heap, cancel_cmd.room)
           THEN Texts(out') = <<"Room {} is now unoccupied.",
                                "AC turned off.", "Lights turned off.",
                                "Booking for Room {} cancelled successfully.">>
           ELSE Len(out') = 1

C12_MessageOrder == [][C12_Step]_vars

\* C12 witness: a Cancel execute has just been accepted on the room of the
\* caller's Book command and has printed its four lines.
C12_Witness ==
    /\ lastOp.op = "CancelBookingCommand.execute"
    /\ Len(out) = 4
    /\ book_cmd.room = lastOp.target
    /\ ~is_occupied(heap, lastOp.target)

\* How many entries of the observer list are the observer.
Entries(list, observer) == Cardinality({k \in 1 .. Len(list) : list[k] = observer})

\* C13: set_temperature(t) stores t and makes one update(t) call per entry
\* of the observer list, in list order, with the new temperature, so an observer
\* with no entry left gets none and one with two entries gets two; add_observer
\* puts the observer at the end of the list, remove_observer takes out only its
\* first entry and keeps the order of the rest, and neither makes an update
\* call nor touches the temperature.
C13_Step ==
    LET call == station_last'.call
        obs == station.observers
    IN  /\ call.op = "set_temperature" =>
               /\ station'.temperature = call.arg
               /\ station'.observers = obs
               /\ station_last'.updates =
                      [i \in 1 .. Len(obs) |-> [observer |-> obs[i], temperature |-> call.arg]]
               /\ \A d \in Displays :
                      Cardinality({i \in 1 .. Len(station_last'.updates) :
                                      station_last'.updates[i].observer = d})
                          = Entries(obs, d)
        /\ call.op = "add_observer" =>
               /\ station'.observers = obs \o <<call.target>>
               /\ station_last'.updates = <<>>
               /\ station'.temperature = station.temperature
        /\ call.op = "remove_observer" =>
               /\ station_last'.updates = <<>>
               /\ station'.temperature = station.temperature
               /\ IF Entries(obs, call.target) = 0
                  THEN station'.observers = obs
                  ELSE \E i \in 1 .. Len(obs) :
                          /\ obs[i] = call.target
                          /\ \A j \in 1 .. i - 1 : obs[j] # call.target
                          /\ station'.observers =
                                 [k \in 1 .. Len(obs) - 1 |->
                                     IF k < i THEN obs[k] ELSE obs[k + 1]]

C13_StationNotifiesListInOrder == [][C13_Step]_vars

\* C13 witness: set_temperature has just notified a list in which one
\* observer is entered twice, around the other one, and made three update calls.
C13_Witness ==
    /\ station_last.call.op = "set_temperature"
    /\ station.observers = <<"phone_display", "tv_display", "phone_display">>
    /\ Len(station_last.updates) = 3
    /\ station.temperature = 30

\* The array is in non-decreasing order.
NonDecreasing(a) == \A i \in 1 .. Len(a) - 1 : a[i] <= a[i + 1]

\* a and b hold the same elements, each as often.
SameMultiset(a, b) ==
    /\ Len(a) = Len(b)
    /\ \A v \in Values : Entries(a, v) = Entries(b, v)

\* C14: for the array the caller built, BubbleSort.sort and QuickSort.sort
\* each give a non-decreasing array with the elements of the input, each as often,
\* and the same one; once a strategy has been executed the array is that sorted
\* array, and executing either strategy on it again leaves it as it is.
C14_SortsAgreeAndAreIdempotent ==
    LET b == BubbleSort_sort(input)
        q == QuickSort_sort(input)
    IN  /\ NonDecreasing(b) /\ SameMultiset(b, input)
        /\ NonDecreasing(q) /\ SameMultiset(q, input)
        /\ b = q
        /\ runs = <<>> => array = input
        /\ runs # <<>> =>
               /\ array = Strategy_sort(runs[1], input)
               /\ NonDecreasing(array) /\ SameMultiset(array, input)
               /\ BubbleSort_sort(array) = array
               /\ QuickSort_sort(array) = array

\* C14 witness: an unsorted array with a duplicate has been sorted by
\* BubbleSort and then run through QuickSort.
C14_Witness ==
    /\ input = <<2, 0, 2, 1>>
    /\ runs = <<BubbleSort, QuickSort>>
    /\ array = <<0, 1, 2, 2>>

\* The observer objects in a Room's list.
SensorsOf(h, r) == {h[r].observers[i] : i \in 1 .. Len(h[r].observers)}

\* The calls that act on one Room.
RoomOps == {"set_max_capacity", "add_occupants", "release_occupants",
            "BookRoomCommand.execute", "CancelBookingCommand.execute"}

\* C15: a set_max_capacity, add_occupants, release_occupants, Book execute
\* or Cancel execute on one Room leaves occupied and max_capacity of every other
\* Room as they were and makes update calls only on observers in the targeted
\* Room's list, which are in no other Room's list; every Room's list is one AC
\* and one Lights object of its own.
C15_Step ==
    /\ lastOp'.op \in RoomOps =>
           LET r == lastOp'.target
           IN  /\ \A q \in RoomIds \ {r} :
                      /\ heap'[q].occupied = heap[q].occupied
                      /\ heap'[q].max_capacity = heap[q].max_capacity
               /\ \A i \in 1 .. Len(updates') :
                      /\ updates'[i].sensor \in SensorsOf(heap, r)
                      /\ \A q \in RoomIds \ {r} : updates'[i].sensor \notin SensorsOf(heap, q)
    /\ \A r \in 1 .. Len(heap') :
           /\ Len(heap'[r].observers) = 2
           /\ sensors'[heap'[r].observers[1]] = "AC"
           /\ sensors'[heap'[r].observers[2]] = "Lights"
           /\ \A q \in 1 .. Len(heap') : q # r => SensorsOf(heap', q) \cap SensorsOf(heap', r) = {}

C15_RoomsIndependent == [][C15_Step]_vars

\* C15 witness: release_occupants on Room 1 has notified its two sensors
\* while Room 2 stays occupied with its capacity set.
C15_Witness ==
    /\ lastOp.op = "release_occupants"
    /\ lastOp.target = 1
    /\ Len(updates) = 2
    /\ Len(heap) = 2
    /\ heap[2].occupied
    /\ heap[2].max_capacity > 0

====
